---- MODULE Spec2Model ----
(***************************************************************************)
(* Session lifecycle and login-flow coordination of the two authentication *)
(* providers of ai-tlu-assistant:                                          *)
(*   TluAuthenticationProvider + handleAngularAuth  (TluAuthProvider.ts)   *)
(*   MyAuthenticationProvider                       (unnamed/part_000)     *)
(* One provider object is constructed per behaviour (variable provider).   *)
(* Every asynchronous method is a task that advances from one await to the *)
(* next; what runs between two awaits is one atomic step (the JavaScript   *)
(* event loop runs a continuation, and the microtasks it queues, to        *)
(* completion before the next timer, URI or I/O completion is dispatched). *)
(***************************************************************************)
EXTENDS Integers, Sequences, FiniteSets, TLC

VARIABLES
    provider,    \* which class was constructed: "Tlu" or "My"
    sessions,    \* this._sessions: Map in insertion order, <<[k, v], ...>>
    stored,      \* secret storage value under sessionKey (undefined or the JSON text)
    tasks,       \* the pending invocations of the public async methods
    flows,       \* the login flows handleAngularAuth has started, oldest first
    uriHandler,  \* host: index of the flow whose URI handler is registered, 0 if none
    dropped,     \* host: a callback URI since the last flow started found no handler
    now,         \* Date.now(); a behaviour is short against the lifetime of a session
    ops          \* number of method invocations so far

vars == <<provider, sessions, stored, tasks, flows, uriHandler, dropped, now, ops>>

-----------------------------------------------------------------------------
(* Bounds of the model *)

MaxOps == 2
MaxFlows == 1

\* invocations that can be in progress at once
Callers == {1, 2}

-----------------------------------------------------------------------------
(* JavaScript values *)

Undefined == "undefined"
Null == "null"

\* undefined where an object is expected
UndefinedObject == [undefined |-> TRUE]

\* variant: the empty string taken as truthy
Present(v) == v \notin {Undefined, Null}

\* truthiness of a string-or-null-or-undefined value
Truthy(v) == v \notin {Undefined, Null, ""}

\* variant: a default applied only to an absent value, a ?? b
OrElseNullish(a, b) == IF a \in {Undefined, Null} THEN b ELSE a

\* a || b
OrElse(a, b) == IF Truthy(a) THEN a ELSE b

-----------------------------------------------------------------------------
(* Map<string, session> with insertion order *)

MapHas(m, key) == \E i \in 1..Len(m) : m[i].k = key

\* variant: a lookup that hands out an entry for a key the map does not hold
MapGetOrStub(m, key) ==
    IF MapHas(m, key)
    THEN (CHOOSE e \in {m[i] : i \in 1..Len(m)} : e.k = key).v
    ELSE [id |-> key]

MapGet(m, key) ==
    IF MapHas(m, key)
    THEN (CHOOSE e \in {m[i] : i \in 1..Len(m)} : e.k = key).v
    ELSE UndefinedObject

MapSet(m, key, val) ==
    IF MapHas(m, key)
    THEN [i \in 1..Len(m) |-> IF m[i].k = key THEN [k |-> key, v |-> val] ELSE m[i]]
    ELSE Append(m, [k |-> key, v |-> val])

MapDelete(m, key) == SelectSeq(m, LAMBDA e : e.k # key)

MapValues(m) == [i \in 1..Len(m) |-> m[i].v]

-----------------------------------------------------------------------------
(* JSON.stringify of the session array: a property whose value is undefined *)
(* is left out of the text; JSON.parse gives back objects without it.       *)

StringProps == {"id", "accessToken"}

StringifyObject(o) ==
    [f \in {g \in DOMAIN o : ~(g \in StringProps /\ o[g] = Undefined)} |-> o[f]]

\* JSON.stringify(sessions), the text kept as the array it denotes
Stringify(arr) == [json |-> [i \in 1..Len(arr) |-> StringifyObject(arr[i])]]

\* JSON.parse(text)
Parse(text) == text.json

\* property read o.f: undefined when the object has no such property
Prop(o, f) == IF f \in DOMAIN o THEN o[f] ELSE Undefined

\* variant: the spread written after the overriding properties, {accessToken, ...o}
SpreadFirst(o, over) == o @@ over

\* {...o, ...over}
Spread(o, over) == over @@ o

-----------------------------------------------------------------------------
(* Inputs *)

\* Math.random().toString(36).substring(2, 15) of the first, second, ... flow
Nonces == <<"s1", "s2", "s3", "s4">>
\* the token the remote service issues while the provider runs
Tokens == {"t2"}
Emails == {"a@x.com"}
Names == {"Ann"}
\* userInfo.id of the accounts the remote service knows
AccountIds == {"a@x.com", "b@x.com"}
ScopeLists == {<<"chat">>, <<"chat", "code">>}

\* the query of a callback URI; URLSearchParams.get gives null for an absent parameter
Queries ==
    [state : {Nonces[i] : i \in 1..(MaxFlows + 1)} \cup {Null},
     access_token : Tokens \cup {Null, ""},
     displayName : Names \cup {Null, ""},
     email : Emails \cup {Null, ""},
     active : {Null, "true", "false"}]

\* 24 * 60 * 60 * 1000
SessionLifetime == 86400000

\* values Date.now() can return
Times == {0, SessionLifetime + 1}

\* secretStorage.store either completes or rejects
StoreOutcomes == {TRUE, FALSE}

\* what an axios call can end in: a 2xx response with its body, a non-2xx response
\* (axios throws an error carrying it), or no response at all
Http(status, data) == [status |-> status, data |-> data]
\* status 0 stands for an error without a response
NoResponse == [status |-> 0, data |-> UndefinedObject]
FailedResponses == {Http(401, UndefinedObject), Http(500, UndefinedObject), NoResponse}

\* bodies of the token endpoints: {token}, or a body without a token field
TokenResponses ==
    {Http(200, [token |-> tk]) : tk \in Tokens \cup {Undefined}} \cup FailedResponses

UserInfoResponses ==
    {Http(200, [id |-> i, name |-> n]) : i \in AccountIds, n \in Names} \cup FailedResponses

ValidationResponses ==
    {Http(200, [valid |-> v]) : v \in BOOLEAN} \cup FailedResponses

RevokeResponses == {Http(200, UndefinedObject), Http(500, UndefinedObject), NoResponse}

Ok2xx(response) == response.status = 200

-----------------------------------------------------------------------------
(* Error messages *)

ErrStateMismatch == "State mismatch in authentication flow"
ErrNoToken == "Authentication failed: No token received"
ErrTimeout == "Authentication timed out after 5 minutes"
ErrHandlerRegistered == "Protocol handler already registered"
ErrStorage == "secret storage rejected"
ErrCancelled == "Dang nhap da bi huy"
ErrBadCredentials == "Ten dang nhap hoac mat khau khong chinh xac"
ErrLoginStatus == "Loi xac thuc: <status>"
ErrNoConnection == "Khong the ket noi den may chu xac thuc"
ErrTokenExpired == "Token khong hop le hoac da het han"
ErrRefreshStatus == "Loi lam moi token: <status>"
ErrRevokeStatus == "Loi huy token: <status>"
ErrUserInfoStatus == "Khong the lay thong tin nguoi dung: <status>"
ErrNoSuchSession == "Phien voi ID <sessionId> khong ton tai"
ErrCreate == "Khong the tao phien"
ErrRemove == "Khong the xoa phien"
ErrRefresh == "Khong the lam moi phien"

\* what an invocation hands back to its caller
Returned(v) == [ok |-> TRUE, value |-> v]

\* variant: a catch block that shows the message and does not rethrow
ThrownSwallowed(prefix, cause) == Returned(UndefinedObject)

\* throw new Error(`${prefix}: ${cause}`) out of a method's catch block
Thrown(prefix, cause) == [ok |-> FALSE, error |-> <<prefix, cause>>]

\* variant: the new session announced as changed instead of added
ChangeEventSwapped(added, removed, changed) ==
    [added |-> changed, removed |-> removed, changed |-> added]

ChangeEvent(added, removed, changed) ==
    [added |-> added, removed |-> removed, changed |-> changed]

-----------------------------------------------------------------------------
(* Tasks: one record per invocation of an async method.  log lists, in order, *)
(* what the invocation has done to the registry, the storage, the event       *)
(* emitter and the remote service; reply is what its last validation request  *)
(* ended in; omitted says that it was called without its optional argument;   *)
(* before is the registry as it was when the invocation mutated it.           *)

IdleTask ==
    [op |-> "none", pc |-> "idle", id |-> Undefined, scopes |-> <<>>, flow |-> 0,
     login |-> UndefinedObject, session |-> UndefinedObject,
     updatedSession |-> UndefinedObject, snapshot |-> UndefinedObject,
     log |-> <<>>, result |-> UndefinedObject, reply |-> UndefinedObject,
     omitted |-> FALSE, before |-> <<>>,
     cursor |-> 0, expiredSessions |-> <<>>]

MapSetDone(key) == [kind |-> "set", key |-> key]
MapDeleteDone(key) == [kind |-> "delete", key |-> key]
StoreCalled == [kind |-> "store"]
StoreDone == [kind |-> "stored"]
Fired(event) == [kind |-> "fire", event |-> event]
Called(api, token) == [kind |-> "call", api |-> api, token |-> token]
Replied(response) == [kind |-> "reply", response |-> response]
Logged(error) == [kind |-> "console.error", error |-> error]
Shown(error) == [kind |-> "showErrorMessage", error |-> error]

\* slot of the initialize() the constructor starts
Boot == 0

Slots == {Boot} \cup Callers

\* a slot is free once its invocation has returned or thrown
Free(t) == tasks[t].pc \in {"idle", "done"}

\* a new invocation takes the first free slot
NextSlot(t) == Free(t) /\ \A u \in Callers : u < t => ~Free(u)

Start(op) == [IdleTask EXCEPT !.op = op]

\* return / throw: the locals of the invocation are gone, its log and result stay
Finish(task, result) ==
    [task EXCEPT !.pc = "done", !.result = result, !.login = UndefinedObject,
                 !.snapshot = UndefinedObject, !.reply = UndefinedObject,
                 !.before = <<>>]

\* variant: the text of an empty array, whatever the registry holds
persistSessionsEmpty(m) == Stringify(<<>>)

\* persistSessions(): the JSON text is built at the call, the write completes later
persistSessions(m) == Stringify(MapValues(m))

-----------------------------------------------------------------------------
(* handleAngularAuth: the promise, its URI handler and its timer *)

Pending == [kind |-> "pending"]
Resolved(v) == [kind |-> "resolved", value |-> v]
Rejected(e) == [kind |-> "rejected", error |-> e]

\* variant: a promise whose later resolve/reject replaces the earlier outcome
SettleLast(promise, outcome) == outcome

\* resolve(v) / reject(e) of a Promise: only the first call settles it, and the
\* continuation of the task awaiting it receives that first outcome
Settle(promise, outcome) == IF promise.kind = "pending" THEN outcome ELSE promise

\* what a flow record keeps of a settled promise: the value of a resolved promise
\* lives on in the createSession that awaited it (its loginResponse)
Held(outcome) == IF outcome.kind = "resolved" THEN [kind |-> "resolved"] ELSE outcome

\* variant: a dispose that leaves the handler registered
DisposeNothing(f) == uriHandler

\* disposable.dispose(): unregisters this flow's handler if it is the registered one
Dispose(f) == IF uriHandler = f THEN 0 ELSE uriHandler

\* the promise executor: registerUriHandler, then setTimeout.  The host allows one
\* URI handler per extension; registerUriHandler throws while one is registered,
\* which rejects the promise before the timer is set.
handleAngularAuth(nonce) ==
    IF uriHandler = 0
    THEN [state |-> nonce, promise |-> Pending, timer |-> "pending",
          disposeCalls |-> 0, settleCalls |-> 0, handled |-> <<>>]
    ELSE [state |-> nonce, promise |-> Rejected(ErrHandlerRegistered), timer |-> "none",
          disposeCalls |-> 0, settleCalls |-> 0, handled |-> <<>>]

\* variant: handleUri without the comparison of the state parameter
handleUriOutcomeAnyState(state, query) ==
    IF ~Truthy(query.access_token) THEN Rejected(ErrNoToken)
    ELSE Resolved([access_token |-> query.access_token,
                   displayName |-> OrElse(query.displayName, "Unknown"),
                   email |-> OrElse(query.email, "Unknown"),
                   active |-> (query.active = "true")])

\* what handleUri passes to resolve or reject
handleUriOutcome(state, query) ==
    IF query.state # state THEN Rejected(ErrStateMismatch)
    ELSE IF ~Truthy(query.access_token) THEN Rejected(ErrNoToken)
    ELSE Resolved([access_token |-> query.access_token,
                   displayName |-> OrElse(query.displayName, "Unknown"),
                   email |-> OrElse(query.email, "Unknown"),
                   active |-> (query.active = "true")])

\* the callbacks looked at for a flow: on the paths of handleUri that throw, the
\* parameters read but not used are left absent
QueriesFor(state) ==
    {query \in Queries :
        \/ query.state = state /\ Truthy(query.access_token)
        \/ query.displayName = Null /\ query.email = Null /\ query.active = Null}

\* handleUri: both branches dispose the handler, then resolve or reject
handleUri(flow, query) ==
    [flow EXCEPT !.disposeCalls = @ + 1,
                 !.settleCalls = @ + 1,
                 !.promise = Settle(@, Held(handleUriOutcome(flow.state, query))),
                 !.handled = Append(@, query)]

\* variant: a timeout callback that disposes the handler and rejects nothing
timeoutCallbackSilent(flow) ==
    [flow EXCEPT !.timer = "fired", !.disposeCalls = @ + 1]

\* the setTimeout callback: dispose, reject, show the timeout message
timeoutCallback(flow) ==
    [flow EXCEPT !.timer = "fired",
                 !.disposeCalls = @ + 1,
                 !.settleCalls = @ + 1,
                 !.promise = Settle(@, Rejected(ErrTimeout))]

-----------------------------------------------------------------------------
(* TluAuthenticationProvider.createSession *)

\* the task awaiting the promise of flow f, if any
Waiters(f) == {t \in DOMAIN tasks : tasks[t].pc = "awaitFlow" /\ tasks[t].flow = f}

\* createSession from the settled login promise to its next await (lines 163-186),
\* or through its catch block (lines 197-200)
createSessionTluResume(t, promise) ==
    IF promise.kind = "resolved"
    THEN LET loginResponse == promise.value
             session == [id |-> loginResponse.email,
                         accessToken |-> loginResponse.access_token,
                         account |-> [label |-> loginResponse.displayName,
                                      id |-> loginResponse.email],
                         scopes |-> tasks[t].scopes]
             m == MapSet(sessions, session.id,
                         Spread(session, [expiresTime |-> now + SessionLifetime]))
         IN  /\ sessions' = m
             /\ tasks' = [tasks EXCEPT ![t] =
                    [@ EXCEPT !.pc = "persist", !.login = loginResponse,
                              !.session = session,
                              !.before = sessions,
                              !.snapshot = persistSessions(m),
                              !.log = @ \o <<MapSetDone(session.id), StoreCalled>>]]
    ELSE /\ sessions' = sessions
         /\ tasks' = [tasks EXCEPT ![t] = Finish(@, Thrown(ErrCreate, promise.error))]

\* resolve/reject called with outcome on the promise of flow f: if that settles
\* it, the continuation of the createSession awaiting it runs
FlowSettled(f, outcome) ==
    IF Settle(flows[f].promise, outcome) = outcome /\ Waiters(f) # {}
    THEN createSessionTluResume(CHOOSE t \in Waiters(f) : TRUE, outcome)
    ELSE UNCHANGED <<sessions, tasks>>

\* createSession(scopes) up to the await of the login promise (lines 152-163, 358-427).
\* The awaits of asExternalUri and openExternal (lines 365, 377) come before the
\* handler is registered and touch nothing of the provider; they are taken in
\* the same step.
createSessionTlu(t, scopes) ==
    /\ provider = "Tlu"
    /\ NextSlot(t)
    /\ ops < MaxOps
    /\ Len(flows) < MaxFlows
    /\ LET f == Len(flows) + 1
           flow == handleAngularAuth(Nonces[f])
           task == [Start("createSession") EXCEPT !.scopes = scopes, !.flow = f]
       IN  /\ flows' = Append(flows, flow)
           /\ uriHandler' = IF uriHandler = 0 THEN f ELSE uriHandler
           /\ tasks' = [tasks EXCEPT ![t] =
                  IF flow.promise.kind = "pending"
                  THEN [task EXCEPT !.pc = "awaitFlow"]
                  ELSE Finish(task, Thrown(ErrCreate, flow.promise.error))]
    /\ dropped' = FALSE
    /\ ops' = ops + 1
    /\ UNCHANGED <<provider, sessions, stored, now>>

\* the host receives a callback URI and hands it to the registered handler, if any.
\* The queries are grouped by what handleUri does with them, so that queries with
\* the same effect give one successor state.
UriArrives ==
    /\ provider = "Tlu"
    /\ IF uriHandler = 0
       THEN /\ dropped' = TRUE
            /\ UNCHANGED <<flows, uriHandler, sessions, tasks>>
       ELSE LET f == uriHandler
                effects == {<<handleUri(flows[f], query),
                              handleUriOutcome(flows[f].state, query)>> :
                                  query \in QueriesFor(flows[f].state)}
            IN  \E effect \in effects :
                    /\ flows' = [flows EXCEPT ![f] = effect[1]]
                    /\ uriHandler' = Dispose(f)
                    /\ FlowSettled(f, effect[2])
                    /\ dropped' = dropped
    /\ UNCHANGED <<provider, stored, now, ops>>

\* the 5 minute timer of flow f fires (it is never cleared)
TimerFires(f) ==
    /\ f \in 1..Len(flows)
    /\ flows[f].timer = "pending"
    /\ flows' = [flows EXCEPT ![f] = timeoutCallback(@)]
    /\ uriHandler' = Dispose(f)
    /\ FlowSettled(f, Rejected(ErrTimeout))
    /\ UNCHANGED <<provider, stored, dropped, now, ops>>

\* secretStorage.store of createSession settles (lines 186-200 of Tlu, 266-281 of My)
createSessionPersisted(t, ok) ==
    /\ tasks[t].op = "createSession"
    /\ tasks[t].pc = "persist"
    /\ IF ok
       THEN /\ stored' = tasks[t].snapshot
            /\ tasks' = [tasks EXCEPT ![t] =
                   Finish([@ EXCEPT !.log = @ \o
                               <<StoreDone,
                                 Fired(ChangeEvent(<<tasks[t].session>>, <<>>, <<>>))>>],
                          Returned(tasks[t].session))]
       ELSE /\ stored' = stored
            /\ tasks' = [tasks EXCEPT ![t] = Finish(@, Thrown(ErrCreate, ErrStorage))]
    /\ UNCHANGED <<provider, sessions, flows, uriHandler, dropped, now, ops>>

-----------------------------------------------------------------------------
(* MyAuthenticationProvider: the token client *)

\* getTokenWithCredentials (lines 385-412): the error thrown for a body without a
\* token is caught by the method's own catch, where it carries no response
getTokenWithCredentials(response) ==
    IF Ok2xx(response)
    THEN IF Truthy(Prop(response.data, "token"))
         THEN Resolved(response.data.token)
         ELSE Rejected(ErrNoConnection)
    ELSE IF response.status = 0 THEN Rejected(ErrNoConnection)
    ELSE IF response.status = 401 THEN Rejected(ErrBadCredentials)
    ELSE Rejected(ErrLoginStatus)

\* variant: refreshToken returning the body's token whatever the request ended in
refreshTokenUnguarded(response) == Resolved(Prop(response.data, "token"))

\* refreshToken (lines 417-435): the body's token is returned unchecked
refreshToken(response) ==
    IF Ok2xx(response) THEN Resolved(Prop(response.data, "token"))
    ELSE IF response.status = 0 THEN Rejected(ErrNoConnection)
    ELSE IF response.status = 401 THEN Rejected(ErrTokenExpired)
    ELSE Rejected(ErrRefreshStatus)

\* revokeToken (lines 440-450)
revokeToken(response) ==
    IF Ok2xx(response) THEN Resolved(Undefined)
    ELSE IF response.status = 0 THEN Rejected(ErrNoConnection)
    ELSE Rejected(ErrRevokeStatus)

\* variant: validateToken without its catch returning false
validateTokenLenient(response) ==
    IF Ok2xx(response) THEN Prop(response.data, "valid") = TRUE ELSE TRUE

\* validateToken (lines 159-169)
validateToken(response) ==
    IF Ok2xx(response) THEN Prop(response.data, "valid") = TRUE ELSE FALSE

\* getUserInfo (lines 455-473)
getUserInfo(response) ==
    IF Ok2xx(response) THEN Resolved(response.data)
    ELSE IF response.status = 0 THEN Rejected(ErrNoConnection)
    ELSE Rejected(ErrUserInfoStatus)

-----------------------------------------------------------------------------
(* removeSession (both providers) *)

IndexOf(m, key) == CHOOSE i \in 1..Len(m) : m[i].k = key

\* A Map iterator keeps its place when an entry it has passed is deleted: the
\* cursor of a validateSessions loop counts the entries passed that are still there
IteratorsAfterDelete(m, key) ==
    [u \in DOMAIN tasks |->
        IF /\ tasks[u].pc \in {"validate", "validated"}
           /\ MapHas(m, key)
           /\ IndexOf(m, key) <= tasks[u].cursor
        THEN [tasks[u] EXCEPT !.cursor = @ - 1]
        ELSE tasks[u]]

\* variant: removeSession without the try/catch around revokeToken
revokeUncaught(revoked) ==
    IF revoked.kind = "rejected"
    THEN Thrown(ErrRemove, revoked.error)
    ELSE Returned(UndefinedObject)

\* try { await this.revokeToken(...) } catch { console.error(...) } and the return
\* of removeSession after it (lines 313-322 of My): a rejection is not rethrown
revokeCaught(revoked) == Returned(UndefinedObject)

\* what removeSession of MyAuthenticationProvider does for the revocation (lines
\* 313-320): the request, its reply, and the console.error of a failed one
Revocation(session, response) ==
    <<Called("revokeToken", Prop(session, "accessToken")), Replied(response)>>
    \o IF revokeToken(response).kind = "rejected"
       THEN <<Logged(revokeToken(response).error)>>
       ELSE <<>>

\* variant: the token revoked before the event is fired
removeSessionRevokeFirst(p, session, response) ==
    <<StoreDone>>
    \o (IF p = "My" THEN Revocation(session, response) ELSE <<>>)
    \o <<Fired(ChangeEvent(<<>>, <<session>>, <<>>))>>

\* removeSession once persistSessions has returned (lines 306-320 of My, 227-232
\* of Tlu): the event is fired, then MyAuthenticationProvider revokes the token
removeSessionAfterPersist(p, session, response) ==
    <<StoreDone, Fired(ChangeEvent(<<>>, <<session>>, <<>>))>>
    \o (IF p = "My" THEN Revocation(session, response) ELSE <<>>)

\* removeSession(sessionId) up to its first await
removeSession(t, sessionId) ==
    /\ NextSlot(t)
    /\ ops < MaxOps
    /\ LET session == MapGet(sessions, sessionId)
           task == [Start("removeSession") EXCEPT !.id = sessionId]
       IN  IF session # UndefinedObject
           THEN LET m == MapDelete(sessions, sessionId)
                IN  /\ sessions' = m
                    /\ tasks' = [IteratorsAfterDelete(sessions, sessionId) EXCEPT ![t] =
                           [task EXCEPT !.pc = "persist", !.session = session,
                                        !.before = sessions,
                                        !.snapshot = persistSessions(m),
                                        !.log = <<MapDeleteDone(sessionId), StoreCalled>>]]
           ELSE /\ sessions' = sessions
                /\ tasks' = [tasks EXCEPT ![t] = Finish(task, Returned(UndefinedObject))]
    /\ ops' = ops + 1
    /\ UNCHANGED <<provider, stored, flows, uriHandler, dropped, now>>

\* secretStorage.store of removeSession settles: the event is fired and, in
\* MyAuthenticationProvider, the token is revoked; a failed revocation is logged
\* and swallowed.  response is what that request ends in: revokeToken throws unless
\* it is a 2xx, the catch around it logs the error, and the method returns.
removeSessionPersisted(t, ok, response) ==
    /\ tasks[t].op = "removeSession"
    /\ tasks[t].pc = "persist"
    /\ IF ok
       THEN /\ stored' = tasks[t].snapshot
            /\ tasks' = [tasks EXCEPT ![t] =
                   Finish([@ EXCEPT !.log = @ \o
                               removeSessionAfterPersist(provider, tasks[t].session,
                                                         response)],
                          IF provider = "My"
                          THEN revokeCaught(revokeToken(response))
                          ELSE Returned(UndefinedObject))]
       ELSE /\ stored' = stored
            /\ tasks' = [tasks EXCEPT ![t] = Finish(@, Thrown(ErrRemove, ErrStorage))]
    /\ UNCHANGED <<provider, sessions, flows, uriHandler, dropped, now, ops>>

-----------------------------------------------------------------------------
(* MyAuthenticationProvider: createSession, refreshSession *)

\* the ways the three awaits before the registry is touched can go: the input
\* boxes, the login request, the user-info request.  A request that is not sent
\* has no response.
NotSent == [status |-> -1, data |-> UndefinedObject]

LoginRuns ==
    {[entered |-> FALSE, token |-> NotSent, userInfo |-> NotSent]}
    \cup {[entered |-> TRUE, token |-> r, userInfo |-> NotSent] :
             r \in {x \in TokenResponses : getTokenWithCredentials(x).kind = "rejected"}}
    \cup {[entered |-> TRUE, token |-> r, userInfo |-> u] :
             r \in {x \in TokenResponses : getTokenWithCredentials(x).kind = "resolved"},
             u \in UserInfoResponses}

\* createSession(scopes) up to the await of persistSessions (lines 235-266), or
\* through its catch block (lines 277-281).  Before this point the method reads
\* and writes nothing of the provider, so its three awaits are taken in one step.
createSessionMy(t, scopes, run) ==
    /\ provider = "My"
    /\ NextSlot(t)
    /\ ops < MaxOps
    /\ LET task == [Start("createSession") EXCEPT !.scopes = scopes]
           token == getTokenWithCredentials(run.token)
           userInfo == getUserInfo(run.userInfo)
           login == <<Called("getTokenWithCredentials", Undefined), Replied(run.token)>>
       IN  IF ~run.entered
           THEN /\ sessions' = sessions
                /\ tasks' = [tasks EXCEPT ![t] = Finish(task, Thrown(ErrCreate, ErrCancelled))]
           ELSE IF token.kind = "rejected"
           THEN /\ sessions' = sessions
                /\ tasks' = [tasks EXCEPT ![t] =
                       Finish([task EXCEPT !.log = login], Thrown(ErrCreate, token.error))]
           ELSE IF userInfo.kind = "rejected"
           THEN /\ sessions' = sessions
                /\ tasks' = [tasks EXCEPT ![t] =
                       Finish([task EXCEPT !.log = login \o
                                   <<Called("getUserInfo", token.value), Replied(run.userInfo)>>],
                              Thrown(ErrCreate, userInfo.error))]
           ELSE LET session == [id |-> userInfo.value.id,
                                accessToken |-> token.value,
                                account |-> [label |-> userInfo.value.name,
                                             id |-> userInfo.value.id],
                                scopes |-> scopes]
                    m == MapSet(sessions, session.id, session)
                IN  /\ sessions' = m
                    /\ tasks' = [tasks EXCEPT ![t] =
                           [task EXCEPT !.pc = "persist",
                                        !.login = [token |-> token.value,
                                                   userInfo |-> userInfo.value],
                                        !.session = session,
                                        !.before = sessions,
                                        !.snapshot = persistSessions(m),
                                        !.log = login \o
                                            <<Called("getUserInfo", token.value),
                                              Replied(run.userInfo),
                                              MapSetDone(session.id), StoreCalled>>]]
    /\ ops' = ops + 1
    /\ UNCHANGED <<provider, stored, flows, uriHandler, dropped, now>>

\* refreshSession(sessionId) up to the refresh request (lines 336-352)
refreshSession(t, sessionId) ==
    /\ provider = "My"
    /\ NextSlot(t)
    /\ ops < MaxOps
    /\ LET session == MapGet(sessions, sessionId)
           task == [Start("refreshSession") EXCEPT !.id = sessionId]
       IN  tasks' = [tasks EXCEPT ![t] =
               IF session # UndefinedObject
               THEN [task EXCEPT !.pc = "refresh", !.session = session,
                                 !.log = <<Called("refreshToken", Prop(session, "accessToken"))>>]
               ELSE Finish(task, Thrown(ErrNoSuchSession, sessionId))]
    /\ ops' = ops + 1
    /\ UNCHANGED <<provider, sessions, stored, flows, uriHandler, dropped, now>>

\* refreshToken settles (lines 352-362, 373-377)
refreshSessionRefreshed(t, response) ==
    /\ tasks[t].op = "refreshSession"
    /\ tasks[t].pc = "refresh"
    /\ LET newToken == refreshToken(response)
           task == [tasks[t] EXCEPT !.log = Append(@, Replied(response))]
       IN  IF newToken.kind = "resolved"
           THEN LET updatedSession ==
                        Spread(task.session, [accessToken |-> newToken.value])
                    m == MapSet(sessions, task.id, updatedSession)
                IN  /\ sessions' = m
                    /\ tasks' = [tasks EXCEPT ![t] =
                           [task EXCEPT !.pc = "persist", !.updatedSession = updatedSession,
                                        !.before = sessions,
                                        !.snapshot = persistSessions(m),
                                        !.log = @ \o <<MapSetDone(task.id), StoreCalled>>]]
           ELSE /\ sessions' = sessions
                /\ tasks' = [tasks EXCEPT ![t] =
                       Finish(task, Thrown(ErrRefresh, newToken.error))]
    /\ UNCHANGED <<provider, stored, flows, uriHandler, dropped, now, ops>>

\* secretStorage.store of refreshSession settles (lines 362-377)
refreshSessionPersisted(t, ok) ==
    /\ tasks[t].op = "refreshSession"
    /\ tasks[t].pc = "persist"
    /\ IF ok
       THEN /\ stored' = tasks[t].snapshot
            /\ tasks' = [tasks EXCEPT ![t] =
                   Finish([@ EXCEPT !.log = @ \o
                               <<StoreDone,
                                 Fired(ChangeEvent(<<>>, <<>>, <<tasks[t].updatedSession>>))>>],
                          Returned(tasks[t].updatedSession))]
       ELSE /\ stored' = stored
            /\ tasks' = [tasks EXCEPT ![t] = Finish(@, Thrown(ErrRefresh, ErrStorage))]
    /\ UNCHANGED <<provider, sessions, flows, uriHandler, dropped, now, ops>>

-----------------------------------------------------------------------------
(* getSessions (both providers) *)

\* what getSessions is called with: no argument, or an array of scopes
ScopeRequests ==
    {[omitted |-> TRUE, scopes |-> <<>>]}
    \cup {[omitted |-> FALSE, scopes |-> r] : r \in {<<>>, <<"code">>, <<"chat", "code">>}}

\* arr.includes(x)
Includes(arr, x) == \E i \in DOMAIN arr : arr[i] = x

\* scopes.every(scope => session.scopes.includes(scope))
EveryScope(scopes, session) ==
    \A i \in DOMAIN scopes : Includes(session.scopes, scopes[i])

\* the array getSessions resolves with: MyAuthenticationProvider filters by the
\* requested scopes (lines 190-200), TluAuthenticationProvider returns every
\* session whatever was requested (lines 145-147)
SessionsFor(p, m, request) ==
    IF p = "Tlu" \/ request.omitted \/ Len(request.scopes) = 0
    THEN MapValues(m)
    ELSE SelectSeq(MapValues(m), LAMBDA session : EveryScope(request.scopes, session))

\* getSessions(scopes): the method has no await, it returns at the call
getSessions(t, request) ==
    /\ NextSlot(t)
    /\ ops < MaxOps
    /\ tasks' = [tasks EXCEPT ![t] =
           Finish([Start("getSessions") EXCEPT !.scopes = request.scopes,
                                               !.omitted = request.omitted],
                  Returned(SessionsFor(provider, sessions, request)))]
    /\ ops' = ops + 1
    /\ UNCHANGED <<provider, sessions, stored, flows, uriHandler, dropped, now>>

-----------------------------------------------------------------------------
(* initialize, started by the constructor, and validateSessions *)

\* variant: no entry is taken as expired
ExpiredNever(session) == FALSE

\* Tlu: an entry whose expiresTime has passed is not restored (line 113)
Expired(session) ==
    /\ provider = "Tlu"
    /\ "expiresTime" \in DOMAIN session
    /\ session.expiresTime # 0
    /\ session.expiresTime < now

\* the for loop of initialize over the parsed array
RECURSIVE Hydrate(_, _)
Hydrate(m, entries) ==
    IF entries = <<>> THEN m
    ELSE Hydrate(IF Expired(Head(entries)) THEN m
                 ELSE MapSet(m, Prop(Head(entries), "id"), Head(entries)),
                 Tail(entries))

\* variant: only the first expired session is deleted
DeleteHead(m, expiredSessions) ==
    IF expiredSessions = <<>> THEN m
    ELSE MapDelete(m, Prop(Head(expiredSessions), "id"))

\* the loop of validateSessions over expiredSessions (lines 138-140)
RECURSIVE DeleteAll(_, _)
DeleteAll(m, expiredSessions) ==
    IF expiredSessions = <<>> THEN m
    ELSE DeleteAll(MapDelete(m, Prop(Head(expiredSessions), "id")), Tail(expiredSessions))

\* validateSessions from the head of its for loop to its next await (lines 124-143):
\* the next entry's token is sent for validation, or the loop is over and the
\* expired sessions are deleted and the registry persisted
validateSessionsLoop(task, m) ==
    IF task.cursor < Len(m)
    THEN [task |-> [task EXCEPT !.pc = "validate", !.cursor = @ + 1,
                                !.session = m[task.cursor + 1].v,
                                !.log = Append(@, Called("validateToken",
                                               Prop(m[task.cursor + 1].v, "accessToken")))],
          sessions |-> m]
    ELSE IF task.expiredSessions # <<>>
    THEN LET left == DeleteAll(m, task.expiredSessions)
         IN  [task |-> [task EXCEPT !.pc = "persist", !.session = UndefinedObject,
                                    !.snapshot = persistSessions(left),
                                    !.log = @ \o <<MapDeleteDone(
                                                [i \in DOMAIN task.expiredSessions |->
                                                    Prop(task.expiredSessions[i], "id")]),
                                                   StoreCalled>>],
              sessions |-> left]
    ELSE [task |-> Finish([task EXCEPT !.session = UndefinedObject],
                          Returned(UndefinedObject)),
          sessions |-> m]

\* secretStorage.get settles (lines 100-116 of My, 106-124 of Tlu); when it
\* rejects, the catch of initialize reports the error and initialize returns
initialize(got) ==
    /\ tasks[Boot].pc = "get"
    /\ IF got /\ stored # UndefinedObject
       THEN LET m == Hydrate(sessions, Parse(stored))
            IN  IF provider = "My"
                THEN LET next == validateSessionsLoop(tasks[Boot], m)
                     IN  /\ sessions' = next.sessions
                         /\ tasks' = [tasks EXCEPT ![Boot] = next.task]
                ELSE /\ sessions' = m
                     /\ tasks' = [tasks EXCEPT ![Boot] = Finish(@, Returned(UndefinedObject))]
       ELSE /\ sessions' = sessions
            /\ tasks' = [tasks EXCEPT ![Boot] =
                   Finish([@ EXCEPT !.log = IF got THEN @ ELSE <<Shown(ErrStorage)>>],
                          Returned(UndefinedObject))]
    /\ UNCHANGED <<provider, stored, flows, uriHandler, dropped, now, ops>>

\* the request of validateToken ends (line 161): response is what it ended in
validateTokenReplied(response) ==
    /\ tasks[Boot].pc = "validate"
    /\ tasks' = [tasks EXCEPT ![Boot] = [@ EXCEPT !.pc = "validated", !.reply = response]]
    /\ UNCHANGED <<provider, sessions, stored, flows, uriHandler, dropped, now, ops>>

\* validateToken returns and validateSessions goes on (lines 127-134, 165-168)
validateSessionsValidated ==
    /\ tasks[Boot].pc = "validated"
    /\ LET isValid == validateToken(tasks[Boot].reply)
           task == [tasks[Boot] EXCEPT !.expiredSessions =
                        IF isValid THEN @ ELSE Append(@, tasks[Boot].session)]
           next == validateSessionsLoop(task, sessions)
       IN  /\ sessions' = next.sessions
           /\ tasks' = [tasks EXCEPT ![Boot] = next.task]
    /\ UNCHANGED <<provider, stored, flows, uriHandler, dropped, now, ops>>

\* secretStorage.store of validateSessions settles (lines 143-153); a rejection ends
\* in the catch of initialize
validateSessionsPersisted(ok) ==
    /\ tasks[Boot].op = "initialize"
    /\ tasks[Boot].pc = "persist"
    /\ stored' = IF ok THEN tasks[Boot].snapshot ELSE stored
    /\ tasks' = [tasks EXCEPT ![Boot] =
           Finish([@ EXCEPT !.log = IF ok
                       THEN @ \o <<StoreDone,
                                   Fired(ChangeEvent(<<>>, tasks[Boot].expiredSessions, <<>>))>>
                       ELSE Append(@, Shown(ErrStorage))],
                  Returned(UndefinedObject))]
    /\ UNCHANGED <<provider, sessions, flows, uriHandler, dropped, now, ops>>

-----------------------------------------------------------------------------
(* What secret storage can hold when the provider is constructed: nothing, or *)
(* the array an earlier run persisted.  An earlier refreshSession that got a  *)
(* body without a token has left an entry without accessToken.                *)

StoredA(tk) ==
    [id |-> "a@x.com", accessToken |-> tk,
     account |-> [label |-> "Ann", id |-> "a@x.com"], scopes |-> <<"chat">>]

StoredB(tk) ==
    [id |-> "b@x.com", accessToken |-> tk,
     account |-> [label |-> "Ann", id |-> "b@x.com"], scopes |-> <<"chat", "code">>]

StoredUnknown(tk) ==
    [id |-> "Unknown", accessToken |-> tk,
     account |-> [label |-> "Unknown", id |-> "Unknown"], scopes |-> <<"chat", "code">>]

PriorBlobs(p) ==
    IF p = "My"
    THEN {UndefinedObject,
          Stringify(<<StoredA("t1")>>),
          Stringify(<<StoredA("t1"), StoredB("t2")>>),
          Stringify(<<StoredA(Undefined)>>)}
    ELSE {UndefinedObject,
          Stringify(<<Spread(StoredA("t1"), [expiresTime |-> SessionLifetime])>>),
          Stringify(<<Spread(StoredA("t1"), [expiresTime |-> SessionLifetime]),
                      Spread(StoredUnknown("t2"), [expiresTime |-> 2 * SessionLifetime + 1])>>)}

Init ==
    /\ provider \in {"Tlu", "My"}
    /\ sessions = <<>>
    /\ stored \in PriorBlobs(provider)
    /\ tasks = [t \in Slots |->
                   IF t = Boot THEN [Start("initialize") EXCEPT !.pc = "get"] ELSE IdleTask]
    /\ flows = <<>>
    /\ uriHandler = 0
    /\ dropped = FALSE
    /\ now \in IF provider = "Tlu" THEN Times ELSE {0}
    /\ ops = 0

Next ==
    \/ \E got \in BOOLEAN : initialize(got)
    \/ \E response \in ValidationResponses : validateTokenReplied(response)
    \/ validateSessionsValidated
    \/ \E ok \in StoreOutcomes : validateSessionsPersisted(ok)
    \/ \E t \in Callers, scopes \in ScopeLists : createSessionTlu(t, scopes)
    \/ UriArrives
    \/ \E f \in 1..MaxFlows : TimerFires(f)
    \/ \E t \in Callers, scopes \in ScopeLists, run \in LoginRuns : createSessionMy(t, scopes, run)
    \/ \E t \in Callers, ok \in StoreOutcomes : createSessionPersisted(t, ok)
    \/ \E t \in Callers, sessionId \in AccountIds \cup {"Unknown"} : removeSession(t, sessionId)
    \/ \E t \in Callers, ok \in StoreOutcomes, response \in RevokeResponses :
           removeSessionPersisted(t, ok, response)
    \/ \E t \in Callers, request \in ScopeRequests : getSessions(t, request)
    \/ \E t \in Callers, sessionId \in AccountIds : refreshSession(t, sessionId)
    \/ \E t \in Callers, response \in TokenResponses : refreshSessionRefreshed(t, response)
    \/ \E t \in Callers, ok \in StoreOutcomes : refreshSessionPersisted(t, ok)

Spec == Init /\ [][Next]_vars

\* TluAuthenticationProvider alone, the provider that has login flows, with the
\* timer of every flow bound to fire: setTimeout(..., 5 * 60 * 1000) is never
\* cleared, so the host runs its callback once the delay has passed
InitTlu == Init /\ provider = "Tlu"

NextTlu ==
    \/ \E got \in BOOLEAN : initialize(got)
    \/ \E t \in Callers, scopes \in ScopeLists : createSessionTlu(t, scopes)
    \/ UriArrives
    \/ \E f \in 1..MaxFlows : TimerFires(f)
    \/ \E t \in Callers, ok \in StoreOutcomes : createSessionPersisted(t, ok)
    \/ \E t \in Callers, sessionId \in AccountIds \cup {"Unknown"} : removeSession(t, sessionId)
    \/ \E t \in Callers, ok \in StoreOutcomes, response \in RevokeResponses :
           removeSessionPersisted(t, ok, response)
    \/ \E t \in Callers, request \in ScopeRequests : getSessions(t, request)

SpecTimer == InitTlu /\ [][NextTlu]_vars /\ \A f \in 1..MaxFlows : WF_vars(TimerFires(f))

-----------------------------------------------------------------------------
(* Properties *)

IsFired(e) == e.kind = "fire"

\* the ChangeEvents an invocation has fired, in order
Events(log) == SelectSeq(log, IsFired)

\* the createSession invocations of TluAuthenticationProvider that await flow f
CreatorsOf(f) ==
    {t \in Callers : provider = "Tlu" /\ tasks[t].op = "createSession" /\ tasks[t].flow = f}

\* the outcome the first event of a flow stands for: the first callback handled,
\* or the timer when no callback was handled
FirstEvent(flow) ==
    IF flow.handled = <<>> THEN "timeout"
    ELSE IF flow.handled[1].state # flow.state THEN "mismatch"
    ELSE IF flow.handled[1].access_token \in {Null, ""} THEN "missing token"
    ELSE "success"

OutcomeOf(promise) ==
    IF promise.kind = "resolved" THEN "success"
    ELSE IF promise.error = ErrTimeout THEN "timeout"
    ELSE IF promise.error = ErrStateMismatch THEN "mismatch"
    ELSE IF promise.error = ErrNoToken THEN "missing token"
    ELSE "other"

\* C1: a login flow delivers at most one outcome to its caller: once a callback
\* or the timer has acted, the promise holds the outcome of the first of them,
\* whatever events followed, and the createSession that awaited it has been
\* resumed with that outcome and no other.
C1_OneOutcome ==
    \A f \in 1..Len(flows) :
        LET flow == flows[f]
        IN  /\ flow.settleCalls > 0 =>
                /\ flow.promise.kind # "pending"
                /\ OutcomeOf(flow.promise) = FirstEvent(flow)
            /\ \A t \in CreatorsOf(f) :
                IF tasks[t].pc = "awaitFlow"
                THEN flow.promise.kind = "pending"
                ELSE /\ flow.promise.kind # "pending"
                     /\ flow.promise.kind = "resolved" =>
                            tasks[t].session # UndefinedObject
                     /\ flow.promise.kind = "rejected" =>
                            /\ tasks[t].session = UndefinedObject
                            /\ tasks[t].pc = "done"
                            /\ ~tasks[t].result.ok
                            /\ tasks[t].result.error = <<ErrCreate, flow.promise.error>>

\* a flow resolved by its callback whose timer fired afterwards, the caller
\* having got its session
C1_Witness ==
    \E f \in 1..Len(flows) : \E t \in CreatorsOf(f) :
        /\ flows[f].settleCalls = 2
        /\ flows[f].promise.kind = "resolved"
        /\ tasks[t].pc = "done"
        /\ tasks[t].result.ok

\* C2: a callback whose state parameter differs from the state of the flow it is
\* handed to never resolves that flow, whatever token it carries: the flow is
\* not resolved and its caller has built no session.
C2_StateMismatch ==
    \A f \in 1..Len(flows) :
        (\E i \in DOMAIN flows[f].handled : flows[f].handled[i].state # flows[f].state) =>
            /\ flows[f].promise.kind = "rejected"
            /\ \A t \in CreatorsOf(f) : tasks[t].session = UndefinedObject

\* a callback with a foreign state and a token was handled and the flow failed
C2_Witness ==
    \E f \in 1..Len(flows) :
        /\ flows[f].handled # <<>>
        /\ flows[f].handled[1].state \notin {flows[f].state, Null}
        /\ flows[f].handled[1].access_token \in Tokens
        /\ flows[f].promise = [kind |-> "rejected", error |-> ErrStateMismatch]

\* C3: when the timer of a flow fires and no callback was handled, the flow is
\* rejected with the timeout error by one rejection, its handler is not
\* registered, and its caller has thrown that error having touched neither the
\* registry nor the storage nor the event emitter; all this still holds after
\* callbacks that arrive later.
C3_Timeout ==
    \A f \in 1..Len(flows) :
        flows[f].timer = "fired" /\ flows[f].handled = <<>> =>
            /\ flows[f].promise = [kind |-> "rejected", error |-> ErrTimeout]
            /\ flows[f].settleCalls = 1
            /\ flows[f].disposeCalls = 1
            /\ uriHandler # f
            /\ \A t \in CreatorsOf(f) :
                /\ tasks[t].pc = "done"
                /\ ~tasks[t].result.ok
                /\ tasks[t].result.error = <<ErrCreate, ErrTimeout>>
                /\ tasks[t].log = <<>>

\* the latest flow timed out and a callback arrived after that
C3_Witness ==
    /\ flows # <<>>
    /\ flows[Len(flows)].timer = "fired"
    /\ flows[Len(flows)].handled = <<>>
    /\ dropped
    /\ CreatorsOf(Len(flows)) # {}

\* C4: once a callback has settled a flow the timeout branch does not run for
\* it: no second dispose, no second resolve/reject, no timeout message.
C4_TimeoutCancelled ==
    \A f \in 1..Len(flows) :
        flows[f].handled # <<>> =>
            /\ flows[f].timer # "fired"
            /\ flows[f].disposeCalls = 1
            /\ flows[f].settleCalls = 1

\* C5: the step in which the login flow of a createSession fails (state mismatch,
\* missing token, timeout) changes neither the registry nor the stored blob,
\* fires no event, and ends the createSession with an error.
C5_FlowFailure ==
    [][\A t \in Callers :
          (/\ provider = "Tlu"
           /\ tasks[t].pc = "awaitFlow"
           /\ flows'[tasks[t].flow].promise.kind = "rejected") =>
              /\ sessions' = sessions
              /\ stored' = stored
              /\ tasks'[t].pc = "done"
              /\ ~tasks'[t].result.ok
              /\ tasks'[t].result.error = <<ErrCreate, flows'[tasks[t].flow].promise.error>>
              /\ tasks'[t].log = <<>>]_vars

\* a createSession that failed because the callback carried no token
C5_Witness ==
    \E t \in Callers :
        /\ provider = "Tlu"
        /\ tasks[t].op = "createSession"
        /\ tasks[t].pc = "done"
        /\ ~tasks[t].result.ok
        /\ tasks[t].result.error = <<ErrCreate, ErrNoToken>>
        /\ sessions # <<>>

\* every key a session can be stored under
SessionIds == AccountIds \cup Emails \cup {"Unknown"}

HasReply(log) == \E i \in DOMAIN log : log[i].kind = "reply"

\* session is the session C6 describes for the createSession task: built from the
\* payload its login produced and the scopes it was called with
Describes(task, session) ==
    /\ session.scopes = task.scopes
    /\ IF provider = "Tlu"
       THEN /\ session.id = task.login.email
            /\ Prop(session, "accessToken") = task.login.access_token
            /\ session.account.label = task.login.displayName
       ELSE /\ session.id = task.login.userInfo.id
            /\ Prop(session, "accessToken") = task.login.token
            /\ session.account.label = task.login.userInfo.name

\* C6, as amended: the step of createSession that follows a successful login puts
\* into the registry, under key email, a session with id = email, accessToken =
\* access_token, label = displayName and the requested scopes; when the storage
\* write then completes, the stored blob holds that session and exactly one
\* ChangeEvent has been fired, with added = [that session] and nothing removed
\* or changed; when the write fails, createSession throws and fires no event.
C6_Create ==
    [][\A t \in Callers :
          /\ (/\ tasks[t].pc # "persist"
              /\ tasks'[t].pc = "persist"
              /\ tasks'[t].op = "createSession") =>
                 LET task == tasks'[t]
                 IN  /\ Describes(task, task.session)
                     /\ MapHas(sessions', task.session.id)
                     /\ Describes(task, MapGet(sessions', task.session.id))
                     /\ provider = "Tlu" =>
                            LET handled == flows'[task.flow].handled
                            IN  task.login.access_token = handled[Len(handled)].access_token
          /\ (/\ tasks[t].op = "createSession"
              /\ tasks[t].pc = "persist"
              /\ tasks'[t].pc = "done") =>
                 IF tasks'[t].result.ok
                 THEN /\ tasks'[t].result.value = tasks[t].session
                      /\ stored' # UndefinedObject
                      /\ \E i \in DOMAIN stored'.json : Describes(tasks[t], stored'.json[i])
                      /\ Events(tasks'[t].log) =
                             <<[kind |-> "fire",
                                event |-> [added |-> <<tasks[t].session>>,
                                           removed |-> <<>>, changed |-> <<>>]]>>
                 ELSE /\ tasks'[t].result.error = <<ErrCreate, ErrStorage>>
                      /\ Events(tasks'[t].log) = <<>>
                      /\ stored' = stored]_vars

\* a createSession that returned its session, now in the registry and the blob
C6_Witness ==
    \E t \in Callers :
        /\ tasks[t].op = "createSession"
        /\ tasks[t].pc = "done"
        /\ tasks[t].result.ok
        /\ Len(Events(tasks[t].log)) = 1
        /\ MapHas(sessions, tasks[t].result.value.id)
        /\ stored # UndefinedObject
        /\ \E i \in DOMAIN stored.json : stored.json[i].id = tasks[t].result.value.id

\* C6 as stated: every createSession whose login succeeded persists the session
\* and fires exactly one ChangeEvent
C6_Original ==
    \A t \in Callers :
        (/\ tasks[t].op = "createSession"
         /\ tasks[t].pc = "done"
         /\ tasks[t].session # UndefinedObject) =>
            /\ tasks[t].result.ok
            /\ Len(Events(tasks[t].log)) = 1

\* C7: a removeSession for an id the registry does not hold returns at once:
\* registry and stored blob unchanged, no event, no storage write, no revoke call.
C7_RemoveUnknown ==
    [][\A t \in Callers :
          (/\ ops' = ops + 1
           /\ tasks'[t] # tasks[t]
           /\ tasks'[t].op = "removeSession"
           /\ ~MapHas(sessions, tasks'[t].id)) =>
              /\ sessions' = sessions
              /\ stored' = stored
              /\ tasks'[t].pc = "done"
              /\ tasks'[t].result = [ok |-> TRUE, value |-> UndefinedObject]
              /\ tasks'[t].log = <<>>]_vars

\* a removeSession of an unknown id has returned, the registry holding a session
C7_Witness ==
    \E t \in Callers :
        /\ tasks[t].op = "removeSession"
        /\ tasks[t].pc = "done"
        /\ tasks[t].session = UndefinedObject
        /\ tasks[t].result.ok
        /\ tasks[t].log = <<>>
        /\ sessions # <<>>

\* C8, as amended: removeSession of a present id deletes it from the registry at
\* once; when the storage write then completes it fires exactly one ChangeEvent
\* with removed = [that session] and nothing added or changed, and returns
\* without error whatever the revoke request ends in, the registry left as it
\* was; when the write fails it throws, fires no event and sends no revoke.
C8_RemovePresent ==
    [][\A t \in Callers :
          /\ (/\ ops' = ops + 1
              /\ tasks'[t] # tasks[t]
              /\ tasks'[t].op = "removeSession"
              /\ MapHas(sessions, tasks'[t].id)) =>
                 /\ ~MapHas(sessions', tasks'[t].id)
                 /\ tasks'[t].pc = "persist"
                 /\ tasks'[t].session = MapGet(sessions, tasks'[t].id)
          /\ (/\ tasks[t].op = "removeSession"
              /\ tasks[t].pc = "persist"
              /\ tasks'[t].pc = "done") =>
                 /\ sessions' = sessions
                 /\ HasReply(tasks'[t].log) => tasks'[t].result.ok
                 /\ IF tasks'[t].result.ok
                    THEN /\ Events(tasks'[t].log) =
                                <<[kind |-> "fire",
                                   event |-> [added |-> <<>>,
                                              removed |-> <<tasks[t].session>>,
                                              changed |-> <<>>]]>>
                         /\ provider = "My" => HasReply(tasks'[t].log)
                    ELSE /\ tasks'[t].result.error = <<ErrRemove, ErrStorage>>
                         /\ Events(tasks'[t].log) = <<>>
                         /\ ~HasReply(tasks'[t].log)]_vars

\* a removeSession returned although its revoke request failed; the session is gone
C8_Witness ==
    \E t \in Callers :
        /\ tasks[t].op = "removeSession"
        /\ tasks[t].pc = "done"
        /\ tasks[t].result.ok
        /\ \E i \in DOMAIN tasks[t].log :
               /\ tasks[t].log[i].kind = "reply"
               /\ tasks[t].log[i].response.status # 200
        /\ Len(Events(tasks[t].log)) = 1
        /\ ~MapHas(sessions, tasks[t].id)

\* C8 as stated: every removeSession of a present id fires exactly one
\* ChangeEvent and completes without error
C8_Original ==
    \A t \in Callers :
        (/\ provider = "My"
         /\ tasks[t].op = "removeSession"
         /\ tasks[t].pc = "done"
         /\ tasks[t].session # UndefinedObject) =>
            /\ tasks[t].result.ok
            /\ Len(Events(tasks[t].log)) = 1

\* C9: when the refresh request of refreshSession(id) succeeds, the registry
\* holds under id the session read at the call with its accessToken replaced by
\* the token of the response (same id, scopes, account) and no other entry has
\* changed; when the storage write then completes, exactly one ChangeEvent has
\* been fired, with changed = [the updated session], which is also returned.
C9_Refresh ==
    [][\A t \in Callers :
          /\ (/\ tasks[t].op = "refreshSession"
              /\ tasks[t].pc = "refresh"
              /\ tasks'[t].pc = "persist") =>
                 LET old == tasks[t].session
                     id == tasks[t].id
                     reply == tasks'[t].log[Len(tasks[t].log) + 1]
                     new == MapGet(sessions', id)
                 IN  /\ MapHas(sessions', id)
                     /\ new.id = old.id
                     /\ new.scopes = old.scopes
                     /\ new.account = old.account
                     /\ Prop(new, "accessToken") = Prop(reply.response.data, "token")
                     /\ tasks'[t].updatedSession = new
                     /\ \A k \in SessionIds \ {id} :
                            /\ MapHas(sessions', k) = MapHas(sessions, k)
                            /\ MapGet(sessions', k) = MapGet(sessions, k)
          /\ (/\ tasks[t].op = "refreshSession"
              /\ tasks[t].pc = "persist"
              /\ tasks'[t].pc = "done"
              /\ tasks'[t].result.ok) =>
                 /\ sessions' = sessions
                 /\ tasks'[t].result.value = tasks[t].updatedSession
                 /\ Events(tasks'[t].log) =
                        <<[kind |-> "fire",
                           event |-> [added |-> <<>>, removed |-> <<>>,
                                      changed |-> <<tasks[t].updatedSession>>]]>>]_vars

\* a refreshSession returned a session with a new token while the registry
\* holds a second session
C9_Witness ==
    \E t \in Callers :
        /\ tasks[t].op = "refreshSession"
        /\ tasks[t].pc = "done"
        /\ tasks[t].result.ok
        /\ Prop(tasks[t].result.value, "accessToken") \in Tokens
        /\ Prop(tasks[t].result.value, "accessToken") # Prop(tasks[t].session, "accessToken")
        /\ MapGet(sessions, tasks[t].id) = tasks[t].result.value
        /\ Len(sessions) = 2

\* C10: when the refresh request of refreshSession(id) ends in a 401, another
\* non-2xx status or no response, that step leaves the registry and the stored
\* blob as they were, fires no event, and ends refreshSession with an error.
C10_RefreshFailure ==
    [][\A t \in Callers :
          (/\ tasks[t].op = "refreshSession"
           /\ tasks[t].pc = "refresh"
           /\ tasks'[t].pc # "refresh"
           /\ tasks'[t].log[Len(tasks[t].log) + 1].response.status # 200) =>
              /\ sessions' = sessions
              /\ stored' = stored
              /\ tasks'[t].pc = "done"
              /\ ~tasks'[t].result.ok
              /\ tasks'[t].result.error[1] = ErrRefresh
              /\ tasks'[t].result.error[2] \in {ErrTokenExpired, ErrRefreshStatus, ErrNoConnection}
              /\ Events(tasks'[t].log) = <<>>]_vars

\* a refreshSession failed on a 401 and the registry still holds the session it read
C10_Witness ==
    \E t \in Callers :
        /\ tasks[t].op = "refreshSession"
        /\ tasks[t].pc = "done"
        /\ ~tasks[t].result.ok
        /\ tasks[t].result.error = <<ErrRefresh, ErrTokenExpired>>
        /\ MapGet(sessions, tasks[t].id) = tasks[t].session

\* C11: a refreshSession for an id the registry does not hold throws the
\* session-not-found error at once: no refresh request, no storage write, no
\* event, registry and stored blob unchanged.
C11_RefreshUnknown ==
    [][\A t \in Callers :
          (/\ ops' = ops + 1
           /\ tasks'[t] # tasks[t]
           /\ tasks'[t].op = "refreshSession"
           /\ ~MapHas(sessions, tasks'[t].id)) =>
              /\ sessions' = sessions
              /\ stored' = stored
              /\ tasks'[t].pc = "done"
              /\ ~tasks'[t].result.ok
              /\ tasks'[t].result.error = <<ErrNoSuchSession, tasks'[t].id>>
              /\ tasks'[t].log = <<>>]_vars

\* a refreshSession threw session-not-found while the registry holds another session
C11_Witness ==
    \E t \in Callers :
        /\ tasks[t].op = "refreshSession"
        /\ tasks[t].pc = "done"
        /\ ~tasks[t].result.ok
        /\ tasks[t].result.error[1] = ErrNoSuchSession
        /\ tasks[t].log = <<>>
        /\ sessions # <<>>

EvictedIds(batch) == {Prop(batch[i], "id") : i \in DOMAIN batch}

IsStoreCall(e) == e.kind = "store"

IsStoreDone(e) == e.kind = "stored"

\* a validation reply that makes validateToken return true
SaysValid(response) == response.status = 200 /\ Prop(response.data, "valid") = TRUE

\* C12, as amended: a session enters the eviction batch exactly when its
\* validation did not return true; when the loop of the sweep ends, the entries
\* under the ids of the batch leave the registry and every other entry stays as
\* it is; with an empty batch the sweep returns with no storage write and no
\* event; with a non-empty batch it makes exactly one storage write and, when
\* that write completes, fires exactly one ChangeEvent whose removed list is the
\* whole batch; when the write fails it fires no event.
C12_Sweep ==
    [][/\ (tasks[Boot].pc = "validated" /\ tasks'[Boot].pc # "validated") =>
            LET batch == tasks'[Boot].expiredSessions
            IN  /\ batch = IF SaysValid(tasks[Boot].reply)
                           THEN tasks[Boot].expiredSessions
                           ELSE Append(tasks[Boot].expiredSessions, tasks[Boot].session)
                /\ tasks'[Boot].pc \in {"validate", "persist", "done"}
                /\ tasks'[Boot].pc = "validate" => sessions' = sessions
                /\ tasks'[Boot].pc # "validate" =>
                       /\ \A k \in SessionIds :
                              /\ MapHas(sessions', k) <=>
                                     (MapHas(sessions, k) /\ k \notin EvictedIds(batch))
                              /\ MapHas(sessions', k) =>
                                     MapGet(sessions', k) = MapGet(sessions, k)
                       /\ Events(tasks'[Boot].log) = <<>>
                       /\ stored' = stored
                       /\ IF batch = <<>>
                          THEN /\ tasks'[Boot].pc = "done"
                               /\ SelectSeq(tasks'[Boot].log, IsStoreCall) = <<>>
                          ELSE /\ tasks'[Boot].pc = "persist"
                               /\ Len(SelectSeq(tasks'[Boot].log, IsStoreCall)) = 1
       /\ (tasks[Boot].op = "initialize" /\ tasks[Boot].pc = "persist") =>
            /\ tasks'[Boot].pc \in {"persist", "done"}
            /\ tasks'[Boot].pc = "done" =>
                   /\ Len(SelectSeq(tasks'[Boot].log, IsStoreCall)) = 1
                   /\ IF SelectSeq(tasks'[Boot].log, IsStoreDone) # <<>>
                      THEN /\ stored' = tasks[Boot].snapshot
                           /\ Events(tasks'[Boot].log) =
                                  <<[kind |-> "fire",
                                     event |-> [added |-> <<>>,
                                                removed |-> tasks[Boot].expiredSessions,
                                                changed |-> <<>>]]>>
                      ELSE /\ stored' = stored
                           /\ Events(tasks'[Boot].log) = <<>>]_vars

\* a sweep over two restored sessions evicted one, kept the other, persisted and
\* fired its event, no other operation having run
C12_Witness ==
    /\ ops = 0
    /\ tasks[Boot].pc = "done"
    /\ Len(tasks[Boot].expiredSessions) = 1
    /\ Len(sessions) = 1
    /\ Len(Events(tasks[Boot].log)) = 1
    /\ stored = Stringify(MapValues(sessions))

\* C12 as stated: every sweep that evicted a session has made one storage write
\* and fired exactly one ChangeEvent
C12_Original ==
    (tasks[Boot].pc = "done" /\ tasks[Boot].expiredSessions # <<>>) =>
        /\ Len(SelectSeq(tasks[Boot].log, IsStoreCall)) = 1
        /\ Len(Events(tasks[Boot].log)) = 1

\* C13: in a sweep, a validation request that fails (non-2xx status, or no
\* response) puts the session into the eviction batch just as a reply saying
\* valid = false does, and whatever the reply was the sweep goes on to validate
\* the next entry of the registry; it leaves its loop only when no entry is left.
C13_SweepGoesOn ==
    [][(tasks[Boot].pc = "validated" /\ tasks'[Boot].pc # "validated") =>
          /\ (\/ tasks[Boot].reply.status # 200
              \/ Prop(tasks[Boot].reply.data, "valid") = FALSE) =>
                 tasks'[Boot].expiredSessions =
                     Append(tasks[Boot].expiredSessions, tasks[Boot].session)
          /\ IF tasks[Boot].cursor < Len(sessions)
             THEN /\ tasks'[Boot].pc = "validate"
                  /\ tasks'[Boot].session = sessions[tasks[Boot].cursor + 1].v
                  /\ tasks'[Boot].log =
                         Append(tasks[Boot].log,
                                [kind |-> "call", api |-> "validateToken",
                                 token |-> Prop(sessions[tasks[Boot].cursor + 1].v,
                                                "accessToken")])
             ELSE tasks'[Boot].pc \in {"persist", "done"}]_vars

\* the validation request of the first restored session failed, the session is
\* in the eviction batch, and the second session is being validated
C13_Witness ==
    /\ tasks[Boot].pc = "validate"
    /\ tasks[Boot].cursor = 2
    /\ tasks[Boot].reply \in {NoResponse, [status |-> 500, data |-> UndefinedObject]}
    /\ Len(tasks[Boot].expiredSessions) = 1
    /\ tasks[Boot].expiredSessions[1].id = sessions[1].k
    /\ tasks[Boot].session = sessions[2].v

Range(seq) == {seq[i] : i \in DOMAIN seq}

\* C14: getSessions(R) resolves with exactly the sessions of the registry whose
\* scopes include every scope of R; called without argument or with an empty
\* array it resolves with all of them.
C14_ScopeFilter ==
    [][\A t \in Callers :
          (/\ ops' = ops + 1
           /\ tasks'[t] # tasks[t]
           /\ tasks'[t].op = "getSessions") =>
              /\ tasks'[t].pc = "done"
              /\ tasks'[t].result.ok
              /\ Range(tasks'[t].result.value) =
                     {session \in Range(MapValues(sessions)) :
                          Range(tasks'[t].scopes) \subseteq Range(session.scopes)}
              /\ Len(tasks'[t].result.value) = Cardinality(Range(tasks'[t].result.value))
              /\ sessions' = sessions]_vars

\* C15: when the storage write of createSession, refreshSession or removeSession
\* fails, the registry is back at the value it had before the method mutated it
\* and the method throws a storage error.
C15_Rollback ==
    [][\A t \in Callers :
          (/\ tasks[t].op \in {"createSession", "refreshSession", "removeSession"}
           /\ tasks[t].pc = "persist"
           /\ tasks'[t].pc = "done"
           /\ ~tasks'[t].result.ok) =>
              /\ tasks'[t].result.error[2] = ErrStorage
              /\ sessions' = tasks[t].before]_vars

\* a session with its required fields: id, accessToken, account label, scopes
Populated(session) ==
    /\ Truthy(Prop(session, "id"))
    /\ Truthy(Prop(session, "accessToken"))
    /\ "account" \in DOMAIN session
    /\ Truthy(Prop(session.account, "label"))
    /\ "scopes" \in DOMAIN session

\* C16: every session in the registry has its required fields populated: no
\* entry restored from storage and no session put by an operation lacks its id,
\* accessToken, account label or scopes.
C16_RequiredFields ==
    \A i \in DOMAIN sessions : Populated(sessions[i].v)

\* an entry TluAuthenticationProvider takes as expired when it loads it
Lapsed(entry) ==
    /\ provider = "Tlu"
    /\ "expiresTime" \in DOMAIN entry
    /\ entry.expiresTime # 0
    /\ entry.expiresTime < now

IsShown(e) == e.kind = "showErrorMessage"

\* C17, as amended: the text persisted for a registry of sessions with all
\* required fields parses back to those very sessions, and a provider that
\* starts with an empty registry and reads a stored array of such sessions
\* holds exactly those sessions after loading it, each under its id, except
\* that TluAuthenticationProvider leaves out the entries whose expiresTime has
\* passed at the time of loading.
C17_RoundTrip ==
    [][/\ (\A i \in DOMAIN sessions : Populated(sessions[i].v)) =>
              Parse(persistSessions(sessions)) = MapValues(sessions)
       /\ (/\ tasks[Boot].pc = "get"
           /\ tasks'[Boot].pc # "get"
           /\ sessions = <<>>
           /\ stored # UndefinedObject
           /\ SelectSeq(tasks'[Boot].log, IsShown) = <<>>
           /\ \A i \in DOMAIN stored.json : Populated(stored.json[i])) =>
              /\ Range(MapValues(sessions')) =
                     {entry \in Range(stored.json) : ~Lapsed(entry)}
              /\ \A i \in DOMAIN sessions' : sessions'[i].k = sessions'[i].v.id
              /\ Len(sessions') = Cardinality(Range(MapValues(sessions')))]_vars

\* TluAuthenticationProvider has loaded a stored array of two sessions, one of
\* them expired, and holds the other one
C17_Witness ==
    /\ provider = "Tlu"
    /\ ops = 0
    /\ tasks[Boot].pc = "done"
    /\ tasks[Boot].log = <<>>
    /\ stored # UndefinedObject
    /\ Len(stored.json) = 2
    /\ Len(sessions) = 1
    /\ MapValues(sessions) = <<stored.json[2]>>

\* C17 as stated: a provider that starts with an empty registry and loads a
\* stored array of sessions with all required fields holds every one of them
C17_Original ==
    [][(/\ tasks[Boot].pc = "get"
        /\ tasks'[Boot].pc # "get"
        /\ sessions = <<>>
        /\ stored # UndefinedObject
        /\ SelectSeq(tasks'[Boot].log, IsShown) = <<>>
        /\ \A i \in DOMAIN stored.json : Populated(stored.json[i])) =>
           Range(MapValues(sessions')) = Range(stored.json)]_vars

\* C18: the token client gives each outcome of its request its own error.  For
\* the login request: 401 gives the wrong-credentials error, another non-2xx
\* status the status error, no response the connection error, and a 2xx body
\* without a token an error that is none of these.  For the refresh request the
\* same holds with 401 giving the expired-token error; in particular a 2xx body
\* without a token makes refreshSession fail.
C18_Taxonomy ==
    \A t \in Callers :
        (/\ provider = "My"
         /\ tasks[t].op \in {"createSession", "refreshSession"}
         /\ tasks[t].pc = "done"
         /\ Len(tasks[t].log) >= 2
         /\ tasks[t].log[2].kind = "reply") =>
            LET response == tasks[t].log[2].response
                login == tasks[t].op = "createSession"
                taxonomy == {ErrBadCredentials, ErrTokenExpired, ErrLoginStatus,
                             ErrRefreshStatus, ErrNoConnection}
            IN  /\ response.status # 200 =>
                       /\ ~tasks[t].result.ok
                       /\ tasks[t].result.error[2] =
                              IF response.status = 401
                              THEN IF login THEN ErrBadCredentials ELSE ErrTokenExpired
                              ELSE IF response.status = 0 THEN ErrNoConnection
                              ELSE IF login THEN ErrLoginStatus ELSE ErrRefreshStatus
                /\ (response.status = 200 /\ ~Truthy(Prop(response.data, "token"))) =>
                       /\ ~tasks[t].result.ok
                       /\ tasks[t].result.error[2] \notin taxonomy \cup {ErrStorage}

\* C19: a callback whose state is the state of the awaiting flow and whose
\* access_token is not empty resolves the flow, and the createSession awaiting
\* it receives {access_token, displayName, email, active}: access_token as sent,
\* displayName and email as sent or "Unknown" when absent or empty, active true
\* only when the parameter is the string "true".
C19_CallbackPayload ==
    [][\A f \in 1..Len(flows) :
          (/\ flows[f].promise.kind = "pending"
           /\ Len(flows'[f].handled) = Len(flows[f].handled) + 1
           /\ flows'[f].handled[Len(flows'[f].handled)].state = flows[f].state
           /\ flows'[f].handled[Len(flows'[f].handled)].access_token \notin {Null, ""}) =>
              LET query == flows'[f].handled[Len(flows'[f].handled)]
                  payload ==
                      [access_token |-> query.access_token,
                       displayName |-> IF query.displayName \in {Null, ""}
                                       THEN "Unknown" ELSE query.displayName,
                       email |-> IF query.email \in {Null, ""}
                                 THEN "Unknown" ELSE query.email,
                       active |-> (query.active = "true")]
              IN  /\ flows'[f].promise.kind = "resolved"
                  /\ \E t \in Callers : tasks[t].pc = "awaitFlow" /\ tasks[t].flow = f
                  /\ \A t \in Callers :
                         (tasks[t].pc = "awaitFlow" /\ tasks[t].flow = f) =>
                             tasks'[t].login = payload]_vars

\* a callback with an empty displayName, no email and active=false resolved a
\* flow, and its createSession holds the payload with both names "Unknown"
C19_Witness ==
    \E t \in Callers :
        /\ tasks[t].op = "createSession"
        /\ tasks[t].pc = "persist"
        /\ provider = "Tlu"
        /\ flows[tasks[t].flow].handled # <<>>
        /\ flows[tasks[t].flow].handled[1].displayName = ""
        /\ flows[tasks[t].flow].handled[1].email = Null
        /\ flows[tasks[t].flow].handled[1].active = "false"
        /\ tasks[t].login.displayName = "Unknown"
        /\ tasks[t].login.email = "Unknown"
        /\ tasks[t].login.active = FALSE

\* C20: a callback handled while the flow is awaiting rejects it in exactly two
\* cases: with the state-mismatch error when its state is not the state of the
\* flow, whether or not it carries a token, and with the missing-token error
\* when the state matches and access_token is absent or empty.  In both cases
\* the flow is settled, its handler is no longer registered and the createSession
\* awaiting it throws that error.
C20_CallbackFailure ==
    [][\A f \in 1..Len(flows) :
          (/\ flows[f].promise.kind = "pending"
           /\ Len(flows'[f].handled) = Len(flows[f].handled) + 1) =>
              LET query == flows'[f].handled[Len(flows'[f].handled)]
                  mismatch == query.state # flows[f].state
                  missing == query.access_token \in {Null, ""}
              IN  /\ mismatch =>
                         flows'[f].promise = [kind |-> "rejected", error |-> ErrStateMismatch]
                  /\ (~mismatch /\ missing) =>
                         flows'[f].promise = [kind |-> "rejected", error |-> ErrNoToken]
                  /\ flows'[f].promise.kind = "rejected" <=> (mismatch \/ missing)
                  /\ flows'[f].promise.kind = "rejected" =>
                         /\ uriHandler' # f
                         /\ \A t \in Callers :
                                (tasks[t].pc = "awaitFlow" /\ tasks[t].flow = f) =>
                                    /\ tasks'[t].pc = "done"
                                    /\ ~tasks'[t].result.ok
                                    /\ tasks'[t].result.error =
                                           <<ErrCreate, flows'[f].promise.error>>]_vars

\* a callback with the state of the flow and an empty access_token has rejected
\* the flow with the missing-token error, and no handler is registered
C20_Witness ==
    \E f \in 1..Len(flows) :
        /\ flows[f].handled # <<>>
        /\ flows[f].handled[1].state = flows[f].state
        /\ flows[f].handled[1].access_token = ""
        /\ flows[f].promise = [kind |-> "rejected", error |-> ErrNoToken]
        /\ uriHandler = 0

\* C21: a flow that is settled (resolved by a callback, rejected by a callback,
\* or timed out) never has its URI handler registered, in the very state in which
\* it becomes settled already; and a callback is handed to a flow only while the
\* flow is pending.
C21_HandlerGone ==
    [][\A f \in 1..Len(flows') :
          /\ flows'[f].promise.kind # "pending" => uriHandler' # f
          /\ (f <= Len(flows) /\ Len(flows'[f].handled) > Len(flows[f].handled)) =>
                 /\ flows[f].promise.kind = "pending"
                 /\ uriHandler = f
                 /\ uriHandler' = 0]_vars

\* a flow was resolved by a callback, its handler is gone, and a callback that
\* arrived afterwards found no handler
C21_Witness ==
    /\ flows # <<>>
    /\ flows[1].promise.kind = "resolved"
    /\ flows[1].handled # <<>>
    /\ uriHandler = 0
    /\ dropped

Kinds(log) == [i \in DOMAIN log |-> log[i].kind]

IsPrefix(a, b) == Len(a) <= Len(b) /\ \A i \in DOMAIN a : a[i] = b[i]

\* C22: what a removeSession of a present id has done is always an initial part
\* of this sequence: delete from the registry, call of the storage write,
\* completion of the write, ChangeEvent with removed = [the session], revoke
\* request, its reply, report of a failed revoke.  While the write is pending
\* nothing beyond its call has happened; the event comes after the completed
\* write and the revoke request after the event.
C22_RemoveOrder ==
    \A t \in Callers :
        (tasks[t].op = "removeSession" /\ tasks[t].session # UndefinedObject) =>
            /\ IsPrefix(Kinds(tasks[t].log),
                        <<"delete", "store", "stored", "fire", "call", "reply",
                          "console.error">>)
            /\ tasks[t].pc = "persist" => Kinds(tasks[t].log) = <<"delete", "store">>
            /\ (tasks[t].pc = "done" /\ tasks[t].result.ok) =>
                   /\ Len(tasks[t].log) >= IF provider = "My" THEN 6 ELSE 4
                   /\ tasks[t].log[4].event =
                          [added |-> <<>>, removed |-> <<tasks[t].session>>,
                           changed |-> <<>>]
                   /\ provider = "My" => tasks[t].log[5].api = "revokeToken"
            /\ (tasks[t].pc = "done" /\ ~tasks[t].result.ok) =>
                   Kinds(tasks[t].log) = <<"delete", "store">>

\* a removeSession of MyAuthenticationProvider has returned after the write, the
\* event and an accepted revoke request
C22_Witness ==
    \E t \in Callers :
        /\ tasks[t].op = "removeSession"
        /\ tasks[t].pc = "done"
        /\ Len(tasks[t].log) = 6
        /\ tasks[t].log[6].kind = "reply"
        /\ tasks[t].log[6].response.status = 200

Mutating == {"createSession", "removeSession", "refreshSession"}

\* C23: when the mutating operations that were started have all returned
\* without error, each after a completed storage write, the stored blob is the
\* serialization of the registry, whatever the order in which their writes
\* completed.  (Stated for a MyAuthenticationProvider that found nothing to
\* restore, so that the registry is changed by these operations alone.)
C23_NoStaleWrite ==
    (/\ provider = "My"
     /\ tasks[Boot].pc = "done"
     /\ tasks[Boot].log = <<>>
     /\ \A t \in Callers :
            /\ tasks[t].op \in Mutating
            /\ tasks[t].pc = "done"
            /\ tasks[t].result.ok
            /\ SelectSeq(tasks[t].log, IsStoreDone) # <<>>) =>
        stored = persistSessions(sessions)

\* entry has every property session is serialized with (TluAuthenticationProvider
\* stores the session together with its expiresTime)
Holds(entry, session) ==
    \A f \in DOMAIN StringifyObject(session) : f \in DOMAIN entry /\ entry[f] = session[f]

\* blob shows the mutation event stands for: the sessions it adds or changes are
\* entries of the array, and no entry has the id of a session it removes
Reflects(blob, event) ==
    /\ blob # UndefinedObject
    /\ \A s \in Range(event.added) \cup Range(event.changed) :
           \E e \in Range(Parse(blob)) : Holds(e, s)
    /\ \A s \in Range(event.removed) :
           \A e \in Range(Parse(blob)) : Prop(e, "id") # Prop(s, "id")

\* C24: at the moment an invocation fires a ChangeEvent (for a create, a remove,
\* a refresh or an eviction of the sweep), the stored blob shows the mutation of
\* that event.
C24_PersistBeforeEvent ==
    [][\A t \in Slots :
          \A i \in DOMAIN tasks'[t].log :
              (/\ tasks'[t].op = tasks[t].op
               /\ i > Len(tasks[t].log)
               /\ tasks'[t].log[i].kind = "fire") =>
                  Reflects(stored', tasks'[t].log[i].event)]_vars

C24_Witness ==
    /\ provider = "My"
    /\ Events(tasks[Boot].log) # <<>>
    /\ \E t \in Callers :
           /\ tasks[t].op = "refreshSession"
           /\ Events(tasks[t].log) # <<>>
           /\ Reflects(stored, Events(tasks[t].log)[1].event)

\* C25: under SpecTimer, a flow whose promise is pending (its handler registered
\* and its timer set) is eventually settled, resolved or rejected.
C25_Terminates ==
    \A f \in 1..MaxFlows :
        (Len(flows) >= f /\ flows[f].promise.kind = "pending")
            ~> (Len(flows) >= f /\ flows[f].promise.kind # "pending")

C25_Witness ==
    /\ flows # <<>>
    /\ flows[1].handled = <<>>
    /\ flows[1].timer = "fired"
    /\ flows[1].promise = Rejected(ErrTimeout)

\* C26: once a removeSession that deleted the session and a refreshSession of the
\* same id have both returned without error, the id is not in the registry: a
\* refresh that was waiting for its token while the session was removed does not
\* put the session back.
C26_NotPutBack ==
    \A t, u \in Callers :
        (/\ tasks[t].op = "removeSession"
         /\ tasks[t].pc = "done"
         /\ tasks[t].result.ok
         /\ tasks[t].session # UndefinedObject
         /\ tasks[u].op = "refreshSession"
         /\ tasks[u].pc = "done"
         /\ tasks[u].result.ok
         /\ tasks[u].id = tasks[t].id) =>
            ~MapHas(sessions, tasks[t].id)

\* C27: when the sweep deletes its batch, every entry of the registry it deletes
\* is the session whose token it validated: an entry put under the same id
\* while the sweep was waiting for a validation is not deleted on the strength
\* of the old token's validation.
C27_EvictsWhatItValidated ==
    [][(tasks[Boot].pc = "validated" /\ tasks'[Boot].pc = "persist") =>
          \A s \in Range(tasks'[Boot].expiredSessions) :
              MapHas(sessions, Prop(s, "id")) =>
                  MapGet(sessions, Prop(s, "id")) = s]_vars

IsMutation(e) == e.kind \in {"set", "delete"}

\* C28: an invocation that has put or deleted an entry of the registry and has
\* ended, by returning or by throwing, has fired a ChangeEvent; so a subscriber
\* that applies every event to the restored registry is told of every change,
\* also of the change of an invocation whose storage write failed.
C28_EveryChangeAnnounced ==
    \A t \in Slots :
        (tasks[t].pc = "done" /\ SelectSeq(tasks[t].log, IsMutation) # <<>>) =>
            Events(tasks[t].log) # <<>>

\* C29: when secretStorage.get settles and initialize restores the stored
\* sessions, every entry an operation has put into the registry in the meantime
\* is still there with the same session: restoring does not overwrite it with
\* a stored entry.
C29_HydrationKeepsLater ==
    [][(tasks[Boot].pc = "get" /\ tasks'[Boot].pc # "get") =>
          \A i \in DOMAIN sessions :
              MapGet(sessions', sessions[i].k) = sessions[i].v]_vars

====
